---- MODULE Spec2Model ----
(***************************************************************************)
(* Model of the Django project under src/project: the auth views           *)
(* (core/views.py), the audit mixin and user model (core/models.py), the   *)
(* product model and its ModelForm (products/models.py, products/forms.py) *)
(* and the product-creation view (products/views.py).                      *)
(*                                                                         *)
(* One client talks to the server.  Every request is handled atomically;   *)
(* `req`, `before` and `resp` record the request handled last, the stored  *)
(* state it met and the outcome it got, so that the contract of each view  *)
(* can be stated over (before, req, resp, after).  `lastLogin` is what the *)
(* client can tell from the responses alone: the user of its most recent   *)
(* successful login, forgotten when a logout is answered.                  *)
(*                                                                         *)
(* Text is modelled as a sequence of one-character strings.                *)
(***************************************************************************)
EXTENDS Integers, Sequences, FiniteSets, TLC

VARIABLES users, session, products, req, before, resp, lastLogin

vars == <<users, session, products, req, before, resp, lastLogin>>

----------------------------------------------------------------------------
(* Bounds of the model *)

\* the product table is explored up to this many rows
MaxProducts == 1

----------------------------------------------------------------------------
(* Values *)

\* A request body is a function from the names of the fields it carries to
\* their values (request.POST merged with request.FILES); a field that was
\* not sent is not in its domain.
Has(body, key) == key \in DOMAIN body
\* no user: authenticate() returned None / the session holds no user id /
\* a NULL foreign key
None == "<none>"
\* request.user of a request without a valid session user (AnonymousUser)
Anonymous == "<anonymous>"

\* request.method; "PUT" stands for every method other than GET and POST
Methods == {"GET", "POST", "PUT"}

\* the rows of the user table at start; the repository has no registration path
AllUsers == {"alice", "bob", "carol", "dave"}

Password == [u \in AllUsers |->
    CASE u = "alice" -> "correct123"
      [] u = "bob"   -> "hunter2"
      [] u = "carol" -> "correct123"
      [] u = "dave"  -> "hunter2"]

\* AbstractUser.is_active
IsActive == [u \in AllUsers |-> u # "carol"]

\* AbstractUser.is_superuser
IsSuperuser == [u \in AllUsers |-> u = "dave"]

\* the permissions granted to the user (user_permissions and group permissions)
Permissions == [u \in AllUsers |->
    IF u \in {"alice", "carol"} THEN {"products.add_productmodel"} ELSE {}]

----------------------------------------------------------------------------
(* Text helpers *)

Whitespace == {" ", "\t", "\n"}

Digits == {"0", "1", "2", "3", "4", "5", "6", "7", "8", "9"}

DigitValue(c) ==
    CASE c = "0" -> 0 [] c = "1" -> 1 [] c = "2" -> 2 [] c = "3" -> 3
      [] c = "4" -> 4 [] c = "5" -> 5 [] c = "6" -> 6 [] c = "7" -> 7
      [] c = "8" -> 8 [] c = "9" -> 9

RECURSIVE LStrip(_)
LStrip(s) == IF s # <<>> /\ Head(s) \in Whitespace THEN LStrip(Tail(s)) ELSE s

RECURSIVE RStrip(_)
RStrip(s) ==
    IF s # <<>> /\ s[Len(s)] \in Whitespace
    THEN RStrip(SubSeq(s, 1, Len(s) - 1)) ELSE s

\* str.strip()
Strip(s) == RStrip(LStrip(s))

RECURSIVE StripZeros(_)
\* a coefficient without its leading zeros ("0" for zero)
StripZeros(ds) ==
    IF Len(ds) > 1 /\ Head(ds) = "0" THEN StripZeros(Tail(ds)) ELSE ds

RECURSIVE DigitsValue(_)
DigitsValue(ds) ==
    IF ds = <<>> THEN 0
    ELSE 10 * DigitsValue(SubSeq(ds, 1, Len(ds) - 1)) + DigitValue(ds[Len(ds)])

RECURSIVE Pow10(_)
Pow10(n) == IF n = 0 THEN 1 ELSE 10 * Pow10(n - 1)

LowerChar(c) ==
    CASE c = "I" -> "i" [] c = "N" -> "n" [] c = "F" -> "f" [] c = "T" -> "t"
      [] c = "Y" -> "y" [] c = "A" -> "a" [] c = "S" -> "s" [] c = "E" -> "e"
      [] OTHER -> c

Lower(s) == [i \in 1..Len(s) |-> LowerChar(s[i])]

\* the text without a leading sign
Unsigned(s) == IF s # <<>> /\ Head(s) \in {"+", "-"} THEN Tail(s) ELSE s

NonFiniteNames ==
    { <<"i","n","f">>, <<"i","n","f","i","n","i","t","y">>,
      <<"n","a","n">>, <<"s","n","a","n">> }

\* the scanner's state before the first character
ScanStart ==
    [phase |-> "sign", ok |-> TRUE, neg |-> FALSE, coef |-> <<>>, frac |-> 0,
     eneg |-> FALSE, edigits |-> <<>>]

RECURSIVE Scan(_, _)
\* reads [sign] digits [. digits] [e [sign] digits] from s, one character at a
\* time: coef collects the digits of the integer and the fractional part,
\* frac counts the fractional ones, edigits collects the exponent's
Scan(s, acc) ==
    IF s = <<>> THEN acc
    ELSE LET c == Head(s)
         IN  CASE acc.phase = "sign" ->
                    IF c \in {"+", "-"}
                    THEN Scan(Tail(s), [acc EXCEPT !.phase = "int", !.neg = (c = "-")])
                    ELSE Scan(s, [acc EXCEPT !.phase = "int"])
               [] acc.phase = "int" /\ c \in Digits ->
                    Scan(Tail(s), [acc EXCEPT !.coef = Append(@, c)])
               [] acc.phase = "int" /\ c = "." ->
                    Scan(Tail(s), [acc EXCEPT !.phase = "frac"])
               [] acc.phase = "frac" /\ c \in Digits ->
                    Scan(Tail(s), [acc EXCEPT !.coef = Append(@, c), !.frac = @ + 1])
               [] acc.phase \in {"int", "frac"} /\ c \in {"e", "E"} ->
                    Scan(Tail(s), [acc EXCEPT !.phase = "esign"])
               [] acc.phase = "esign" ->
                    IF c \in {"+", "-"}
                    THEN Scan(Tail(s), [acc EXCEPT !.phase = "exp", !.eneg = (c = "-")])
                    ELSE Scan(s, [acc EXCEPT !.phase = "exp"])
               [] acc.phase = "exp" /\ c \in Digits ->
                    Scan(Tail(s), [acc EXCEPT !.edigits = Append(@, c)])
               [] OTHER -> [acc EXCEPT !.ok = FALSE]

\* the scanned text is a number: it has a digit, and an exponent has one too
Scanned(acc) ==
    /\ acc.ok
    /\ acc.coef # <<>>
    /\ (acc.phase \in {"esign", "exp"} => acc.edigits # <<>>)

\* the exponent of the scanned number (as_tuple().exponent)
Exponent(acc) ==
    (IF acc.eneg THEN 0 - DigitsValue(acc.edigits) ELSE DigitsValue(acc.edigits))
    - acc.frac

NotANumber == [kind |-> "invalid", neg |-> FALSE, coef |-> <<>>, exp |-> 0]

\* the Decimal a scan stands for
ScannedDecimal(acc) ==
    IF Scanned(acc)
    THEN [kind |-> "finite", neg |-> acc.neg,
          coef |-> StripZeros(acc.coef), exp |-> Exponent(acc)]
    ELSE NotANumber

(***************************************************************************)
(* decimal.Decimal(str): [sign] (digits [. [digits]] | . digits) [e [sign] *)
(* digits], or a signed Infinity / NaN, surrounding whitespace ignored.    *)
(* The result is the sign, the coefficient (as_tuple().digits) and the     *)
(* exponent (as_tuple().exponent).                                         *)
(***************************************************************************)
ParseDecimal(s) ==
    IF Lower(Unsigned(Strip(s))) \in NonFiniteNames
    THEN [kind |-> "nonfinite", neg |-> FALSE, coef |-> <<>>, exp |-> 0]
    ELSE ScannedDecimal(Scan(Strip(s), ScanStart))

\* the stored NUMERIC(10, 2) value of a validated decimal, in hundredths
\* (format_number quantizes to decimal_places digits)
Hundredths(d) ==
    LET n == DigitsValue(d.coef) * Pow10(d.exp + 2)
    IN  IF d.neg THEN 0 - n ELSE n

----------------------------------------------------------------------------
(* ProductModel and ProductForm *)

\* nombre = models.CharField(max_length=100, ...)
NombreMaxLength == 100
\* precio = models.DecimalField(max_digits=10, decimal_places=2, ...)
PrecioMaxDigits == 10
PrecioDecimalPlaces == 2

\* the kinds of upload in request.FILES['imagen']: an image file, a file that
\* is not an image
Uploads == {"png", "txt"}

FormFields == {"imagen", "nombre", "descripcion", "precio"}

\* the outcome of cleaning one field: its cleaned value, or an error code
Cleaned(v) == [error |-> "", value |-> v]
Rejected(code) == [error |-> code, value |-> None]

\* forms.ImageField(required=False): an upload must be a readable image
CleanImagen(body) ==
    IF ~Has(body, "imagen") THEN Cleaned(None)
    ELSE IF body.imagen = "png" THEN Cleaned("products/upload.png")
    ELSE Rejected("invalid_image")

\* forms.CharField(required=True, max_length=100, strip=True)
CleanNombre(body) ==
    LET v == IF Has(body, "nombre") THEN Strip(body.nombre) ELSE <<>>
    IN  IF v = <<>> THEN Rejected("required")
        ELSE IF Len(v) > NombreMaxLength THEN Rejected("max_length")
        ELSE Cleaned(v)

\* forms.CharField(required=False, widget=Textarea): optional free text
CleanDescripcion(body) ==
    IF Has(body, "descripcion") THEN Cleaned(Strip(body.descripcion)) ELSE Cleaned(<<>>)

\* DecimalValidator(max_digits, decimal_places) on a finite Decimal
DecimalValidatorError(d) ==
    LET n        == Len(d.coef)
        digits   == IF d.exp >= 0
                    THEN (IF d.coef = <<"0">> THEN n ELSE n + d.exp)
                    ELSE (IF 0 - d.exp > n THEN 0 - d.exp ELSE n)
        decimals == IF d.exp >= 0 THEN 0 ELSE 0 - d.exp
    IN  IF digits > PrecioMaxDigits THEN "max_digits"
        ELSE IF decimals > PrecioDecimalPlaces THEN "max_decimal_places"
        ELSE IF digits - decimals > PrecioMaxDigits - PrecioDecimalPlaces
        THEN "max_whole_digits"
        ELSE ""

\* the field declared optional (blank=True): a missing or blank precio passes
CleanPrecio_Optional(body) ==
    IF ~Has(body, "precio") \/ body.precio = <<>> THEN Cleaned(None)
    ELSE LET d == ParseDecimal(body.precio)
         IN  IF d.kind # "finite" THEN Rejected("invalid")
             ELSE IF DecimalValidatorError(d) # ""
             THEN Rejected(DecimalValidatorError(d))
             ELSE Cleaned(Hundredths(d))

\* forms.DecimalField(required=True, max_digits=10, decimal_places=2)
CleanPrecio(body) ==
    IF ~Has(body, "precio") \/ body.precio = <<>> THEN Rejected("required")
    ELSE LET d == ParseDecimal(body.precio)
         IN  IF d.kind # "finite" THEN Rejected("invalid")
             ELSE IF DecimalValidatorError(d) # ""
             THEN Rejected(DecimalValidatorError(d))
             ELSE Cleaned(Hundredths(d))

\* ProductForm(request.POST, request.FILES) after full_clean()
CleanForm(body) ==
    [imagen      |-> CleanImagen(body),
     nombre      |-> CleanNombre(body),
     descripcion |-> CleanDescripcion(body),
     precio      |-> CleanPrecio(body)]

\* form.errors: the fields that carry an error, each with its code
FormErrors(body) ==
    LET c == CleanForm(body)
    IN  [f \in {g \in FormFields : c[g].error # ""} |-> c[f].error]

\* form.is_valid()
IsValid(body) == DOMAIN FormErrors(body) = {}

\* form.save(commit=False): the unsaved ProductModel built from cleaned_data;
\* the audit fields keep the defaults of AuditModel
ConstructInstance(body) ==
    LET c == CleanForm(body)
    IN  [imagen      |-> c.imagen.value,
         nombre      |-> c.nombre.value,
         descripcion |-> c.descripcion.value,
         precio      |-> c.precio.value,
         created_by  |-> None,
         updated_by  |-> None,
         active      |-> TRUE]

\* only created_by is stamped
StampAudit_CreatedOnly(instance, user) ==
    [instance EXCEPT !.created_by = user]

\* form.instance.created_by = request.user; form.instance.updated_by = request.user
StampAudit(instance, user) ==
    [instance EXCEPT !.created_by = user, !.updated_by = user]

\* the NOT NULL foreign keys of AuditModel accept the row
ForeignKeysOk(instance, userTable) ==
    instance.created_by \in userTable /\ instance.updated_by \in userTable

----------------------------------------------------------------------------
(* Responses *)

NoErrors == [f \in {} |-> ""]

Response(kind, status, content, target, message) ==
    [kind |-> kind, status |-> status, content |-> content, target |-> target,
     message |-> message, forms |-> 0, validated |-> FALSE, errors |-> NoErrors]

\* HttpResponse(content, status=200)
HttpResponse(content, message) == Response("HttpResponse", 200, content, "", message)

\* render(request, template): a page without a form
RenderPage(template) == Response("render", 200, template, "", "")

\* render(request, 'ProductForm.html', {'form': form}); `forms` counts the
\* ProductForm objects the view constructed, `validated` tells is_valid() ran
RenderForm(forms, validated, errors, message) ==
    [Response("render", 200, "ProductForm.html", "", message)
        EXCEPT !.forms = forms, !.validated = validated, !.errors = errors]

\* redirect('login'): the URL pattern named 'login'
RedirectLogin(message) == Response("redirect", 302, "", "login", message)

\* login_required: redirect_to_login(next, settings.LOGIN_URL)
RedirectToLoginUrl == Response("redirect", 302, "", "settings.LOGIN_URL", "")

\* PermissionDenied, answered 403 by the framework
PermissionDenied == Response("PermissionDenied", 403, "", "", "")

\* an exception that leaves the view, answered 500 by the framework; `forms`
\* counts the ProductForm objects constructed before it
Unhandled(exception, forms) ==
    [Response("exception", 500, exception, "", "") EXCEPT !.forms = forms]

\* the response record before any request
NoResponse == Response("", 0, "", "", "")

----------------------------------------------------------------------------
(* django.contrib.auth, as the views use it *)

AddProductPerm == "products.add_productmodel"

\* AuthenticationMiddleware: request.user is the session's user when that row
\* exists and is active, else AnonymousUser
RequestUser(sess, userTable) ==
    IF sess \in userTable /\ IsActive[sess] THEN sess ELSE Anonymous

\* request.user.is_authenticated
IsAuthenticated(user) == user # Anonymous

\* the password is not compared
Authenticate_NoPasswordCheck(userTable, username, password) ==
    IF username \in userTable /\ IsActive[username] THEN username ELSE None

\* authenticate(request, username=..., password=...): ModelBackend
Authenticate(userTable, username, password) ==
    IF username \in userTable /\ Password[username] = password /\ IsActive[username]
    THEN username ELSE None

\* a session that already holds a user is left as it is
AuthLogin_KeepsExisting(sess, user) == IF sess # None THEN sess ELSE user

\* login(request, user): the session is flushed or its key cycled, then bound to user
AuthLogin(sess, user) == user

\* the session is not flushed
AuthLogout_KeepsSession(sess) == sess

\* logout(request): session.flush()
AuthLogout(sess) == None

\* every active user passes the check
HasPerm_ActiveOnly(user, perm) ==
    user \in AllUsers /\ IsActive[user]

\* user.has_perm(perm): active superusers hold every permission
HasPerm(user, perm) ==
    /\ user \in AllUsers
    /\ IsActive[user]
    /\ (IsSuperuser[user] \/ perm \in Permissions[user])

\* raise_exception left at its default: a failed check redirects to the login URL
PermissionFailure_Redirects == RedirectToLoginUrl

\* permission_required(perm, raise_exception=True) on a failed check
PermissionFailure == PermissionDenied

----------------------------------------------------------------------------
(* The views, as functions of the request and the stored state *)

\* core/views.py login_view; the result is the session and the response
LoginViewResult(method, body, sess, userTable) ==
    LET user == RequestUser(sess, userTable)
    IN  CASE method = "GET" ->
               [session |-> sess,
                resp |-> IF IsAuthenticated(user)
                         THEN HttpResponse("Already logged in", "")
                         ELSE RenderPage("LoginView.html")]
          [] method = "POST" ->
               IF ~Has(body, "username") \/ ~Has(body, "password")
               THEN [session |-> sess, resp |-> Unhandled("MultiValueDictKeyError", 0)]
               ELSE LET found == Authenticate(userTable, body.username, body.password)
                    IN  IF found # None
                        THEN [session |-> AuthLogin(sess, found),
                              resp |-> HttpResponse("Login successful", "Login successful")]
                        ELSE [session |-> sess,
                              resp |-> RedirectLogin("Invalid username or password")]
          [] OTHER ->
               \* no branch returns: the view hands None to the framework
               [session |-> sess, resp |-> Unhandled("ValueError", 0)]

\* core/views.py logout_view under @login_required
LogoutViewResult(sess, userTable) ==
    IF IsAuthenticated(RequestUser(sess, userTable))
    THEN [session |-> AuthLogout(sess), resp |-> RedirectLogin("")]
    ELSE [session |-> sess, resp |-> RedirectToLoginUrl]

\* the body of create_product, entered once both decorators let the request in
CreateProductBody(method, body, user, prods, userTable) ==
    CASE method = "GET" ->
           [products |-> prods, resp |-> RenderForm(1, FALSE, NoErrors, "")]
      [] method = "POST" ->
           IF IsValid(body)
           THEN LET instance == StampAudit(ConstructInstance(body), user)
                IN  IF ForeignKeysOk(instance, userTable)
                    THEN [products |-> Append(prods, instance),
                          resp |-> RenderForm(2, TRUE, NoErrors,
                                              "Product created successfully")]
                    ELSE [products |-> prods, resp |-> Unhandled("IntegrityError", 2)]
           ELSE [products |-> prods,
                 resp |-> RenderForm(2, TRUE, FormErrors(body), "Error creating product")]
      [] OTHER ->
           \* no branch returns: the view hands None to the framework
           [products |-> prods, resp |-> Unhandled("ValueError", 1)]

\* the view without its two decorators
CreateProductResult_Undecorated(method, body, user, prods, userTable) ==
    CreateProductBody(method, body, user, prods, userTable)

\* products/views.py create_product under @login_required and
\* @permission_required('products.add_productmodel', raise_exception=True)
CreateProductResult(method, body, user, prods, userTable) ==
    IF ~IsAuthenticated(user)
    THEN [products |-> prods, resp |-> RedirectToLoginUrl]
    ELSE IF ~HasPerm(user, AddProductPerm)
    THEN [products |-> prods, resp |-> PermissionFailure]
    ELSE CreateProductBody(method, body, user, prods, userTable)

\* no row blocks a deletion
ProtectingRows_None(u, prods) == {}

\* on_delete=models.PROTECT: the rows that block the deletion of user u
ProtectingRows(u, prods) ==
    {i \in 1..Len(prods) : prods[i].created_by = u \/ prods[i].updated_by = u}

----------------------------------------------------------------------------
(* State machine *)

Snapshot == [users |-> users, session |-> session, products |-> products]

Request(view, method, body) ==
    [view |-> view, method |-> method, body |-> body,
     user |-> RequestUser(session, users)]

Init ==
    /\ users = AllUsers
    /\ session = None
    /\ products = <<>>
    /\ req = [view |-> "", method |-> "", body |-> <<>>, user |-> Anonymous]
    /\ before = [users |-> AllUsers, session |-> None, products |-> <<>>]
    /\ resp = NoResponse
    /\ lastLogin = None

\* a request to the login entry point
Login(method, body) ==
    LET r == LoginViewResult(method, body, session, users)
    IN  /\ req' = Request("login_view", method, body)
        /\ before' = Snapshot
        /\ session' = r.session
        /\ resp' = r.resp
        /\ lastLogin' = IF r.resp.content = "Login successful"
                        THEN body.username ELSE lastLogin
        /\ UNCHANGED <<users, products>>

\* a request to the logout entry point
Logout(method) ==
    LET r == LogoutViewResult(session, users)
    IN  /\ req' = Request("logout_view", method, <<>>)
        /\ before' = Snapshot
        /\ session' = r.session
        /\ resp' = r.resp
        /\ lastLogin' = IF r.resp.target = "login" THEN None ELSE lastLogin
        /\ UNCHANGED <<users, products>>

\* a request to create/
CreateProduct(method, body) ==
    LET r == CreateProductResult(method, body, RequestUser(session, users),
                                 products, users)
    IN  /\ Len(r.products) <= MaxProducts
        /\ req' = Request("create_product", method, body)
        /\ before' = Snapshot
        /\ products' = r.products
        /\ resp' = r.resp
        /\ UNCHANGED <<users, session, lastLogin>>

\* UserModel.delete() on row u, issued outside the views (admin, shell)
DeleteUser(u) ==
    /\ u \in users
    /\ req' = Request("delete_user", "", u)
    /\ before' = Snapshot
    /\ IF ProtectingRows(u, products) # {}
       THEN /\ resp' = Unhandled("ProtectedError", 0)
            /\ UNCHANGED users
       ELSE /\ resp' = Response("deleted", 0, "", "", "")
            /\ users' = users \ {u}
    /\ UNCHANGED <<session, products, lastLogin>>

----------------------------------------------------------------------------
(* Request inputs *)

Widget == <<"W", "i", "d", "g", "e", "t">>

\* a name of n characters
LongName(n) == [i \in 1..n |-> "x"]

\* the bodies that carry, for each field k of `fields`, either nothing or one
\* of the values of values[k]
RECURSIVE BodiesOver(_, _)
BodiesOver(fields, values) ==
    IF fields = {} THEN {[k \in {} |-> ""]}
    ELSE LET k    == CHOOSE f \in fields : TRUE
             rest == BodiesOver(fields \ {k}, values)
         IN  rest \cup {[j \in DOMAIN b \cup {k} |-> IF j = k THEN v ELSE b[j]] :
                          b \in rest, v \in values[k]}

Usernames == AllUsers \cup {"mallory"}

Passwords == {"correct123", "hunter2"}

LoginBodies == BodiesOver({"username", "password"},
                          [username |-> Usernames, password |-> Passwords])

Nombres ==
    {<<>>, <<" ", " ">>, Widget, <<" ", "W", " ">>,
     LongName(NombreMaxLength), LongName(NombreMaxLength + 1)}

Precios ==
    {<<>>, <<" ">>, <<"a", "b", "c">>, <<"N", "a", "N">>,
     <<"1", "9", ".", "9", "9">>, <<" ", "5", " ">>, <<"-", "1", ".", "5">>,
     <<"1", "e", "2">>, <<"1", "9", ".", "9", "9", "9">>,
     <<"1", "2", "3", "4", "5", "6", "7", "8", "9">>,
     <<"1", "2", "3", "4", "5", "6", "7", "8", "9", ".", "0", "0">>}

\* the reference submission of the scenario: nombre "Widget", precio "19.99"
ReferenceBody == [nombre |-> Widget, precio |-> <<"1", "9", ".", "9", "9">>]

\* the reference submission with field k left out or set to one of vs
Varying(k, vs) ==
    {[j \in DOMAIN ReferenceBody \ {k} |-> ReferenceBody[j]]}
    \cup {[j \in DOMAIN ReferenceBody \cup {k} |-> IF j = k THEN v ELSE ReferenceBody[j]] :
            v \in vs}

\* submissions that vary one field of the reference submission at a time,
\* and submissions in which both nombre and precio are left out or unusable
ProductBodies ==
    Varying("nombre", Nombres) \cup Varying("precio", Precios)
    \cup Varying("imagen", Uploads)
    \cup BodiesOver({"imagen", "nombre", "precio"},
                    [imagen |-> {"txt"}, nombre |-> {<<>>},
                     precio |-> {<<"a", "b", "c">>}])

\* a few submissions: valid, without nombre, with a precio that is no number
CoreProductBodies ==
    BodiesOver({"nombre", "precio"},
               [nombre |-> {Widget},
                precio |-> {<<"1", "9", ".", "9", "9">>, <<"a", "b", "c">>}])

\* the logins of the form specification: two users who may add products, one
\* who may not
FormLoginBodies ==
    {[username |-> "alice", password |-> "correct123"],
     [username |-> "dave", password |-> "hunter2"],
     [username |-> "bob", password |-> "hunter2"]}

Next ==
    \/ \E m \in Methods, b \in LoginBodies : Login(m, b)
    \/ \E m \in Methods : Logout(m)
    \/ \E m \in Methods, b \in CoreProductBodies : CreateProduct(m, b)
    \/ \E u \in AllUsers : DeleteUser(u)

Spec == Init /\ [][Next]_vars

\* the product form under every submission of ProductBodies
FormNext ==
    \/ \E b \in FormLoginBodies : Login("POST", b)
    \/ \E b \in ProductBodies : CreateProduct("POST", b)

FormSpec == Init /\ [][FormNext]_vars

----------------------------------------------------------------------------
(* Properties *)

\* the users who hold the add-product permission and can use it: alice by
\* grant, dave as superuser (carol's account is inactive)
MayAddProduct(u) ==
    u \in {"alice", "dave"}

\* the users whose account is active
ActiveUsers == {"alice", "bob", "dave"}

LoginPost ==
    /\ req.view = "login_view"
    /\ req.method = "POST"
    /\ Has(req.body, "username")
    /\ Has(req.body, "password")

\* the posted pair is the name and the password of an existing active user
MatchingPair ==
    /\ req.body.username \in before.users \cap ActiveUsers
    /\ Password[req.body.username] = req.body.password

C2_InvalidLoginFails ==
    (LoginPost /\ ~MatchingPair) =>
        /\ session = before.session
        /\ (req.user = Anonymous => RequestUser(session, users) = Anonymous)
        /\ resp.kind = "redirect"
        /\ resp.target = "login"

\* an existing user's name with another user's password, posted without a session
C2_Witness ==
    /\ LoginPost /\ ~MatchingPair
    /\ req.body.username = "alice"
    /\ req.body.password = "hunter2"
    /\ before.session = None
    /\ resp.kind = "redirect"

\* C3: a request to logout_view made with an active session, with any HTTP
\* method and after any earlier requests, terminates the session and is
\* answered with a redirect to the login entry point.
C3_LogoutTerminatesSession ==
    (req.view = "logout_view" /\ req.user # Anonymous) =>
        /\ session = None
        /\ RequestUser(session, users) = Anonymous
        /\ resp.kind = "redirect"
        /\ resp.target = "login"

\* a logout by PUT, by a logged-in user, after a product was created
C3_Witness ==
    /\ req.view = "logout_view"
    /\ req.method = "PUT"
    /\ req.user = "alice"
    /\ products # <<>>
    /\ session = None

\* the requester is not logged in, or is logged in without the permission
Unauthorized ==
    req.user = Anonymous \/ ~MayAddProduct(req.user)

\* C4: a request to create_product by a requester without an active session,
\* or without the add-product permission, is rejected before any form
\* processing: no ProductForm is constructed or validated and the product
\* table is unchanged, for GET and for POST with any body.
C4_RejectedBeforeForm ==
    (req.view = "create_product" /\ Unauthorized) =>
        /\ resp.forms = 0
        /\ ~resp.validated
        /\ resp.kind \in {"redirect", "PermissionDenied"}
        /\ products = before.products

\* a valid submission POSTed by a logged-in user without the permission
C4_Witness ==
    /\ req.view = "create_product"
    /\ req.method = "POST"
    /\ req.user = "bob"
    /\ req.body = ReferenceBody
    /\ resp.forms = 0

AuthorizedPost ==
    /\ req.view = "create_product"
    /\ req.method = "POST"
    /\ req.user # Anonymous
    /\ MayAddProduct(req.user)

\* the last row of the product table
Newest == products[Len(products)]

\* exactly one row was added by the request handled last
OneRowAdded ==
    /\ Len(products) = Len(before.products) + 1
    /\ SubSeq(products, 1, Len(before.products)) = before.products

\* the decimals of the input set that have exactly two fractional digits
TwoPlacePrecios ==
    {<<"1", "9", ".", "9", "9">>,
     <<"1", "2", "3", "4", "5", "6", "7", "8", "9", ".", "0", "0">>}

\* C5 as stated: an authorized POST with a non-empty nombre and a precio
\* parseable as a number with 2 decimal places persists exactly one product,
\* with the submitted nombre and precio, created_by and updated_by equal to
\* the submitting user, and active = true.
C5_AsStated ==
    (/\ AuthorizedPost
     /\ Has(req.body, "nombre") /\ req.body.nombre # <<>>
     /\ Has(req.body, "precio") /\ req.body.precio \in TwoPlacePrecios) =>
        /\ OneRowAdded
        /\ Newest.nombre = req.body.nombre
        /\ (req.body.precio = <<"1", "9", ".", "9", "9">> => Newest.precio = 1999)
        /\ Newest.created_by = req.user
        /\ Newest.updated_by = req.user
        /\ Newest.active

\* the decimals of the input set with at most 2 fractional digits and at most
\* 8 integer digits, each with its value in hundredths
AcceptedPrecios ==
    (<<"1", "9", ".", "9", "9">> :> 1999)
    @@ (<<" ", "5", " ">> :> 500)
    @@ (<<"-", "1", ".", "5">> :> -150)
    @@ (<<"1", "e", "2">> :> 10000)

\* the names of the input set that, stripped of surrounding whitespace, are
\* non-empty and at most 100 characters long, each with its stripped form
AcceptedNombres ==
    (Widget :> Widget)
    @@ (<<" ", "W", " ">> :> <<"W">>)
    @@ (LongName(100) :> LongName(100))

Acceptable(body) ==
    /\ Has(body, "nombre") /\ body.nombre \in DOMAIN AcceptedNombres
    /\ Has(body, "precio") /\ body.precio \in DOMAIN AcceptedPrecios
    /\ (Has(body, "imagen") => body.imagen = "png")

\* C5, amended: an authorized POST whose nombre is non-empty after stripping
\* and at most 100 characters long, whose precio is a finite decimal with at
\* most 2 fractional and 8 integer digits, and whose imagen is absent or an
\* image, persists exactly one product, with the stripped nombre, the value
\* of precio, created_by and updated_by equal to the submitting user, and
\* active = true.
C5_AcceptedSubmissionPersists ==
    (AuthorizedPost /\ Acceptable(req.body)) =>
        /\ OneRowAdded
        /\ Newest.nombre = AcceptedNombres[req.body.nombre]
        /\ Newest.precio = AcceptedPrecios[req.body.precio]
        /\ Newest.created_by = req.user
        /\ Newest.updated_by = req.user
        /\ Newest.active
        /\ resp.kind = "render"
        /\ resp.errors = NoErrors

\* a name with surrounding blanks, persisted stripped by the superuser
C5_Witness ==
    /\ AuthorizedPost
    /\ req.user = "dave"
    /\ Has(req.body, "nombre")
    /\ req.body.nombre = <<" ", "W", " ">>
    /\ OneRowAdded
    /\ Newest.nombre = <<"W">>
    /\ Newest.precio = 1999

NombreOffends == ~Has(req.body, "nombre") \/ req.body.nombre = <<>>

\* the precio inputs that are not numbers
NonNumericPrecios ==
    {<<>>, <<" ">>, <<"a", "b", "c">>, <<"N", "a", "N">>}

PrecioOffends == ~Has(req.body, "precio") \/ req.body.precio \in NonNumericPrecios

\* C6: an authorized POST in which nombre is missing or empty, or precio is
\* missing or not numeric, persists nothing, and the rendered form carries a
\* field error on each offending field.
C6_InvalidSubmissionRejected ==
    (AuthorizedPost /\ (NombreOffends \/ PrecioOffends)) =>
        /\ products = before.products
        /\ resp.kind = "render"
        /\ resp.validated
        /\ (NombreOffends => "nombre" \in DOMAIN resp.errors)
        /\ (PrecioOffends => "precio" \in DOMAIN resp.errors)

\* a submission without nombre and without precio, flagged on both fields
C6_Witness ==
    /\ AuthorizedPost
    /\ ~Has(req.body, "nombre")
    /\ ~Has(req.body, "precio")
    /\ {"nombre", "precio"} \subseteq DOMAIN resp.errors

\* C7 as stated: every access to create_product that lacks the session or
\* the permission fails with an access-denied error, not with a redirect.
C7_AsStated ==
    (req.view = "create_product" /\ Unauthorized) =>
        /\ resp.kind = "PermissionDenied"
        /\ resp.kind # "redirect"

\* C7, amended: create_product runs only for a logged-in user holding the
\* add-product permission; a logged-in user without the permission gets the
\* access-denied error (403) and no redirect, and a requester without an
\* active session is redirected to settings.LOGIN_URL.
C7_DeniedOrRedirected ==
    req.view = "create_product" =>
        /\ (req.user # Anonymous /\ ~MayAddProduct(req.user)) =>
               (resp.kind = "PermissionDenied" /\ resp.status = 403)
        /\ req.user = Anonymous =>
               (/\ resp.kind = "redirect"
                /\ resp.status = 302
                /\ resp.target = "settings.LOGIN_URL")
        /\ Unauthorized \/ resp.kind \notin {"PermissionDenied", "redirect"}

\* a GET by a logged-in user without the permission, answered 403
C7_Witness ==
    /\ req.view = "create_product"
    /\ req.method = "GET"
    /\ req.user = "bob"
    /\ resp.status = 403

\* C8 as stated: login_view and create_product end, for every method and
\* body, in a rendered form, a status response, a redirect or an
\* access-denied error.
C8_AsStated ==
    req.view \in {"login_view", "create_product"} =>
        resp.kind \in {"render", "HttpResponse", "redirect", "PermissionDenied"}

\* C9: the created_by and updated_by of every persisted product reference
\* an existing user, from the moment the product is persisted; deleting a
\* user that a product references is blocked and changes neither table.
C9_AuditReferencesExist ==
    /\ \A i \in 1..Len(products) :
          /\ products[i].created_by \in users
          /\ products[i].updated_by \in users
    /\ (/\ req.view = "delete_user"
        /\ \E i \in 1..Len(before.products) :
              req.body \in {before.products[i].created_by,
                            before.products[i].updated_by}) =>
           /\ users = before.users
           /\ products = before.products
           /\ resp.content = "ProtectedError"

\* the deletion of the creator of a product, blocked
C9_Witness ==
    /\ req.view = "delete_user"
    /\ products # <<>>
    /\ req.body = products[1].created_by
    /\ req.body \in users
    /\ resp.content = "ProtectedError"

\* C10: a product is persisted only by a create_product POST made while the
\* session is bound to a user with the add-product permission, that is after
\* a successful login with no logout since, and its created_by is the user
\* of that login; after a logout every create_product request is rejected
\* until a later successful login.
C10_PersistOnlyWhileLoggedIn ==
    /\ products # before.products =>
          /\ req.view = "create_product"
          /\ req.method = "POST"
          /\ OneRowAdded
          /\ lastLogin # None
          /\ MayAddProduct(lastLogin)
          /\ before.session = lastLogin
          /\ Newest.created_by = lastLogin
    /\ (req.view = "create_product" /\ lastLogin = None) =>
          /\ resp.kind = "redirect"
          /\ products = before.products

\* after a product was created and the client logged out, a further valid
\* submission is turned away
C10_Witness ==
    /\ req.view = "create_product"
    /\ req.method = "POST"
    /\ req.body = ReferenceBody
    /\ lastLogin = None
    /\ products # <<>>
    /\ products[1].created_by = "dave"
    /\ resp.kind = "redirect"

====
